---- MODULE Spec2Model ----
(***************************************************************************)
(* Model of the agent-finance data-query service: the natural-language     *)
(* query translator (parseWithRules, parseNaturalLanguageQuery), the       *)
(* dispatcher (executeQuery) and the protocol accessors of Aave V3,        *)
(* Uniswap V3 and Morpho Blue with their demo (synthetic) datasets.        *)
(*                                                                         *)
(* Units: USD amounts are whole dollars; every APY is in 1e-4 percent      *)
(* (4.85 % is 48500).  A string that the code parses as a number is the    *)
(* record [numeric |-> TRUE, val |-> n], a string that does not parse is   *)
(* [numeric |-> FALSE, val |-> 0].  An error message is a record standing  *)
(* for the text the code builds.  Fields of the datasets that no accessor  *)
(* orders or sums by (names, borrowAPY of Aave, utilization, prices) are   *)
(* left out, and so is the timestamp field of the results.                 *)
(***************************************************************************)
EXTENDS Integers, Sequences, FiniteSets, TLC

(* ---- bounds ----------------------------------------------------------- *)

\* longest list a live backend answers with
MaxLive == 1
\* largest value of the wall clock (Date.now()) that is explored
MaxClock == 1
\* longest query, in words
MaxWords == 2

(* ---- types (types/index.ts) ------------------------------------------- *)

Chain == {"base", "arbitrum", "optimism", "ethereum"}
Protocol == {"aave-v3", "uniswap-v3", "morpho-blue"}
Action == {"tvl", "rates", "pools", "volume", "vaults", "unknown"}

\* null / undefined of the source
NULL == "null"

(* ---- generic helpers --------------------------------------------------- *)

Min(a, b) == IF a < b THEN a ELSE b
Max(a, b) == IF a > b THEN a ELSE b

\* Array.prototype.slice(0, n)
Slice0(s, n) ==
  IF n >= 0 THEN SubSeq(s, 1, Min(n, Len(s)))
            ELSE SubSeq(s, 1, Max(Len(s) + n, 0))

\* Array.prototype.sort((a, b) => b[field] - a[field]): stable, descending
\* (s is the value of arr, taken once)
SortDescBy(arr, field) ==
  CHOOSE sorted \in
    {LET n == Len(s)
         rank(i) == 1 + Cardinality({j \in 1..n :
                          \/ s[j][field] > s[i][field]
                          \/ (s[j][field] = s[i][field] /\ j < i)})
     IN  [k \in 1..n |-> s[CHOOSE i \in 1..n : rank(i) = k]] : s \in {arr}} : TRUE

RECURSIVE SumOf(_, _)
\* reduce((sum, r) => sum + r[field], 0)
SumOf(s, field) ==
  IF s = <<>> THEN 0 ELSE s[1][field] + SumOf(Tail(s), field)

\* the k-th smallest member of a set of positions
NthOf(S, k) == CHOOSE i \in S : Cardinality({j \in S : j < i}) = k - 1

\* Array.prototype.includes on a list
Includes(list, x) == \E i \in 1..Len(list) : list[i] = x

\* parseFloat(val ?? "0") with NaN mapped to 0
parseUSD(v) == IF v.numeric THEN v.val ELSE 0

Str(n) == [numeric |-> TRUE, val |-> n]
BadStr == [numeric |-> FALSE, val |-> 0]

(* ---- Aave V3 (protocols/aave.ts) --------------------------------------- *)

AaveInitialDemoData ==
  [base |-> << [symbol |-> "USDC",   tvlUSD |-> 82500000, supplyAPY |-> 48500],
               [symbol |-> "WETH",   tvlUSD |-> 47200000, supplyAPY |-> 19200],
               [symbol |-> "cbBTC",  tvlUSD |-> 28900000, supplyAPY |-> 4100],
               [symbol |-> "USDbC",  tvlUSD |-> 12300000, supplyAPY |-> 39400],
               [symbol |-> "wstETH", tvlUSD |-> 9800000,  supplyAPY |-> 1200] >>,
   arbitrum |-> << [symbol |-> "USDC", tvlUSD |-> 195000000, supplyAPY |-> 51200],
                   [symbol |-> "USDT", tvlUSD |-> 98400000,  supplyAPY |-> 47700],
                   [symbol |-> "WETH", tvlUSD |-> 87600000,  supplyAPY |-> 18500],
                   [symbol |-> "WBTC", tvlUSD |-> 54200000,  supplyAPY |-> 3800],
                   [symbol |-> "ARB",  tvlUSD |-> 18700000,  supplyAPY |-> 900],
                   [symbol |-> "DAI",  tvlUSD |-> 15300000,  supplyAPY |-> 42100] >>,
   optimism |-> << [symbol |-> "USDC", tvlUSD |-> 89000000, supplyAPY |-> 46300],
                   [symbol |-> "WETH", tvlUSD |-> 52800000, supplyAPY |-> 17400],
                   [symbol |-> "WBTC", tvlUSD |-> 24600000, supplyAPY |-> 2900],
                   [symbol |-> "OP",   tvlUSD |-> 11200000, supplyAPY |-> 700],
                   [symbol |-> "DAI",  tvlUSD |-> 8900000,  supplyAPY |-> 38700] >>]

AAVE_SUPPORTED_CHAINS == <<"base", "arbitrum", "optimism">>

\* DEMO_DATA[chain] ?? []
AaveDemoOf(data, chain) == IF chain \in DOMAIN data THEN data[chain] ELSE <<>>

\* A ray string is a record: form says how it is written (a string without
\* the field is plain digits when numeric and plain text otherwise), val is
\* the integer the digits stand for, counted in units of 1e20.
Form(s) ==
  IF "form" \in DOMAIN s THEN s.form
  ELSE IF s.numeric THEN "digits" ELSE "text"

RayStr(form, v) ==
  [numeric |-> form \in {"digits", "padded", "fraction", "exponent"},
   val |-> v, form |-> form]

\* BigInt(string): SyntaxError for text, for a fraction ("1.5") and for an
\* exponent ("1e25"), TypeError for undefined
BigIntThrows(s) == Form(s) \in {"text", "fraction", "exponent", "undefined"}

\* BigInt(string) otherwise: digits, padded digits (" 5 ") and hexadecimal
\* ("0x1f") give their integer, the empty string gives 0n
BigIntOf(s) == IF Form(s) = "empty" THEN 0 ELSE s.val

\* const RAY = BigInt("1000000000000000000000000000"), in units of 1e20
RAY == 10000000

\* the ray worth 0.0001 percent: RAY / 100 / 10^4
RayStep == RAY \div 1000000

\* The rays of the model whose value lies exactly between two results of four
\* decimals and for which (Number(rateBN) / Number(RAY) * 100).toFixed(4)
\* gives the upper one: the double nearest to the quotient decides.
ToFixedTiesUp == {15, 25, 99995, 123455}

\* rayToAPY with the bug of cutting the digits off instead of rounding
rayToAPY_Truncates(ray) ==
  IF BigIntThrows(ray) THEN 0 ELSE BigIntOf(ray) \div RayStep

\* ray string -> APY in 1e-4 percent: rate / RAY * 100 with toFixed(4);
\* BigInt() throwing gives 0
rayToAPY(ray) ==
  IF BigIntThrows(ray) THEN 0
  ELSE LET rest == BigIntOf(ray) % RayStep
       IN  IF 2 * rest > RayStep
              \/ (2 * rest = RayStep /\ BigIntOf(ray) \in ToFixedTiesUp)
           THEN BigIntOf(ray) \div RayStep + 1
           ELSE BigIntOf(ray) \div RayStep

formatReserve(r) ==
  [symbol |-> r.symbol,
   tvlUSD |-> parseUSD(r.totalLiquidityUSD),
   supplyAPY |-> rayToAPY(r.liquidityRate)]

MapFormatReserve(rs) == [i \in 1..Len(rs) |-> formatReserve(rs[i])]

getDemoTVL(data, chain) ==
  [protocol |-> "aave-v3",
   chain |-> chain,
   totalTVLUSD |-> SumOf(AaveDemoOf(data, chain), "tvlUSD"),
   reserveCount |-> Len(AaveDemoOf(data, chain)),
   topReserves |-> AaveDemoOf(data, chain),
   _demo |-> TRUE]

\* the array that DEMO_DATA[chain] holds once getDemoRates has run:
\* Array.prototype.sort orders the array it is called on, in place
getDemoRatesStore(data, chain) ==
  IF chain \in DOMAIN data
  THEN [data EXCEPT ![chain] = SortDescBy(data[chain], "supplyAPY")]
  ELSE data

getDemoRates(data, chain, limit) ==
  [protocol |-> "aave-v3",
   chain |-> chain,
   rates |-> Slice0(SortDescBy(AaveDemoOf(data, chain), "supplyAPY"), limit),
   _demo |-> TRUE]

(* ---- Uniswap V3 (protocols/uniswap.ts) --------------------------------- *)

DEMO_POOLS ==
  [base |-> << [pair |-> "USDC/WETH",   tvlUSD |-> 48200000, volume24hUSD |-> 32500000, fees24hUSD |-> 16250],
               [pair |-> "WETH/cbBTC",  tvlUSD |-> 29800000, volume24hUSD |-> 8900000,  fees24hUSD |-> 26700],
               [pair |-> "USDC/USDbC",  tvlUSD |-> 18700000, volume24hUSD |-> 45200000, fees24hUSD |-> 4520],
               [pair |-> "WETH/DAI",    tvlUSD |-> 11400000, volume24hUSD |-> 5200000,  fees24hUSD |-> 15600],
               [pair |-> "USDC/CBETH",  tvlUSD |-> 8900000,  volume24hUSD |-> 3400000,  fees24hUSD |-> 1700],
               [pair |-> "WETH/wstETH", tvlUSD |-> 6200000,  volume24hUSD |-> 2100000,  fees24hUSD |-> 210] >>,
   arbitrum |-> << [pair |-> "USDC/WETH", tvlUSD |-> 127400000, volume24hUSD |-> 89700000, fees24hUSD |-> 44850],
                   [pair |-> "WBTC/WETH", tvlUSD |-> 68900000,  volume24hUSD |-> 28300000, fees24hUSD |-> 84900],
                   [pair |-> "USDT/USDC", tvlUSD |-> 52300000,  volume24hUSD |-> 98400000, fees24hUSD |-> 9840],
                   [pair |-> "ARB/WETH",  tvlUSD |-> 38700000,  volume24hUSD |-> 22100000, fees24hUSD |-> 66300],
                   [pair |-> "WETH/DAI",  tvlUSD |-> 24100000,  volume24hUSD |-> 12800000, fees24hUSD |-> 38400],
                   [pair |-> "WBTC/USDC", tvlUSD |-> 19800000,  volume24hUSD |-> 15400000, fees24hUSD |-> 46200] >>]

DEMO_TVL == [base |-> 183500000, arbitrum |-> 524800000]

DEMO_POOL_COUNT == [base |-> 2847, arbitrum |-> 8934]

UNISWAP_SUPPORTED_CHAINS == <<"base", "arbitrum">>

formatPool(p) ==
  [pair |-> p.pair,
   tvlUSD |-> parseUSD(p.totalValueLockedUSD),
   volume24hUSD |-> parseUSD(p.volumeUSD),
   fees24hUSD |-> parseUSD(p.feesUSD)]

MapFormatPool(ps) == [i \in 1..Len(ps) |-> formatPool(ps[i])]

\* PoolOrderKey with the bug of ordering by TVL when volume is asked for
PoolOrderKey_IgnoresVolume(orderBy) ==
  IF orderBy = "fees" THEN "fees24hUSD" ELSE "tvlUSD"

\* the key the demo branch of getUniswapTopPools orders by
PoolOrderKey(orderBy) ==
  IF orderBy = "volume" THEN "volume24hUSD"
  ELSE IF orderBy = "fees" THEN "fees24hUSD"
  ELSE "tvlUSD"

UniswapDemoTVL(chain) ==
  [protocol |-> "uniswap-v3",
   chain |-> chain,
   totalTVLUSD |-> DEMO_TVL[chain],
   poolCount |-> DEMO_POOL_COUNT[chain],
   topPools |-> Slice0(DEMO_POOLS[chain], 10),
   _demo |-> TRUE]

\* [...pools].sort(...).slice(0, limit): a bare array, a copy of the dataset
UniswapDemoTopPools(chain, limit, orderBy) ==
  Slice0(SortDescBy(DEMO_POOLS[chain], PoolOrderKey(orderBy)), limit)

(* ---- Morpho Blue (protocols/morpho.ts) --------------------------------- *)

DEMO_MARKETS ==
  [base |-> << [id |-> "base-USDC/WETH",   tvlUSD |-> 48200000, supplyAPY |-> 51200, borrowAPY |-> 64500],
               [id |-> "base-USDC/cbBTC",  tvlUSD |-> 34700000, supplyAPY |-> 48700, borrowAPY |-> 61100],
               [id |-> "base-WETH/wstETH", tvlUSD |-> 28900000, supplyAPY |-> 23400, borrowAPY |-> 31800],
               [id |-> "base-USDC/wstETH", tvlUSD |-> 21400000, supplyAPY |-> 46300, borrowAPY |-> 58900],
               [id |-> "base-USDC/cbETH",  tvlUSD |-> 14800000, supplyAPY |-> 49800, borrowAPY |-> 62300] >>,
   ethereum |-> << [id |-> "eth-USDC/wstETH", tvlUSD |-> 284500000, supplyAPY |-> 62100, borrowAPY |-> 78400],
                   [id |-> "eth-USDT/WBTC",   tvlUSD |-> 198300000, supplyAPY |-> 58700, borrowAPY |-> 73100],
                   [id |-> "eth-DAI/wstETH",  tvlUSD |-> 142700000, supplyAPY |-> 45200, borrowAPY |-> 56300],
                   [id |-> "eth-USDC/WBTC",   tvlUSD |-> 98400000,  supplyAPY |-> 54100, borrowAPY |-> 67800],
                   [id |-> "eth-WETH/wstETH", tvlUSD |-> 74600000,  supplyAPY |-> 19800, borrowAPY |-> 27400] >>]

DEMO_VAULTS ==
  [base |-> << [symbol |-> "gtUSDCp",   tvlUSD |-> 327600000],
               [symbol |-> "steakUSDC", tvlUSD |-> 314100000],
               [symbol |-> "gtWETH",    tvlUSD |-> 94300000],
               [symbol |-> "mwUSDC",    tvlUSD |-> 78900000],
               [symbol |-> "mwWETH",    tvlUSD |-> 47200000] >>,
   ethereum |-> << [symbol |-> "steakUSDC",  tvlUSD |-> 498700000],
                   [symbol |-> "gtUSDCcore", tvlUSD |-> 412300000],
                   [symbol |-> "gtDAIcore",  tvlUSD |-> 287900000],
                   [symbol |-> "gtWETHcore", tvlUSD |-> 198400000],
                   [symbol |-> "gtUSDTcore", tvlUSD |-> 164700000] >>]

MORPHO_SUPPORTED_CHAINS == <<"base", "ethereum">>

\* supplyAssetsUsd ?? 0 and (supplyApy ?? 0) * 100: a null field counts as 0
formatMarket(m) ==
  [id |-> m.uniqueKey,
   tvlUSD |-> parseUSD(m.supplyAssetsUsd),
   supplyAPY |-> parseUSD(m.supplyApy),
   borrowAPY |-> parseUSD(m.borrowApy)]

MapFormatMarket(ms) == [i \in 1..Len(ms) |-> formatMarket(ms[i])]

formatVault(v) ==
  [symbol |-> v.symbol, tvlUSD |-> parseUSD(v.totalAssetsUsd)]

MapFormatVault(vs) == [i \in 1..Len(vs) |-> formatVault(vs[i])]

\* the key getMorphoMarketRates orders by
MarketSortKey(sortBy) ==
  IF sortBy = "borrowAPY" THEN "borrowAPY"
  ELSE IF sortBy = "tvl" THEN "tvlUSD"
  ELSE "supplyAPY"

\* the demo / fallback value of getMorphoTVL
MorphoDemoTVL(chain, limit) ==
  [protocol |-> "morpho-blue",
   chain |-> chain,
   totalTVLUSD |-> SumOf(DEMO_MARKETS[chain], "tvlUSD"),
   marketCount |-> Len(DEMO_MARKETS[chain]),
   topMarkets |-> Slice0(DEMO_MARKETS[chain], limit),
   _demo |-> TRUE]

\* the demo / fallback value of getMorphoMarketRates
MorphoDemoRates(chain, limit, sortBy) ==
  [protocol |-> "morpho-blue",
   chain |-> chain,
   markets |-> Slice0(SortDescBy(DEMO_MARKETS[chain],
                                 MarketSortKey(sortBy)), limit),
   _demo |-> TRUE]

\* the demo / fallback value of getMorphoTopVaults
MorphoDemoVaults(chain, limit) ==
  [protocol |-> "morpho-blue",
   chain |-> chain,
   vaults |-> Slice0(DEMO_VAULTS[chain], limit),
   _demo |-> TRUE]

(* ---- state ------------------------------------------------------------- *)

VARIABLES
  GRAPH_API_KEY,      \* graph/client.ts: the gateway credential is set
  DEMO_MODE,          \* process.env.DEMO_MODE === "true"
  ANTHROPIC_API_KEY,  \* process.env.ANTHROPIC_API_KEY is set
  DEMO_DATA,          \* aave.ts: the module-level demo dataset, chain -> array
  anthropicClient,    \* translator.ts: the cached client is not null
  now,                \* Date.now()
  pc,                 \* position of the call in flight
  call,               \* the exported function that was called, with its arguments
  start,              \* executeQuery: const start = Date.now()
  branches,           \* the accessor calls the call has made, with their outcome
  result,             \* what the call returned (or rejected with)
  ruleBased,          \* parseNaturalLanguageQuery: const ruleBased
  response,           \* parseNaturalLanguageQuery: what messages.create settled with
  genCalls,           \* calls of client.messages.create made by the call in flight
  store,              \* rateLimit.ts: the module-level Map, key -> entry
  nextCalls           \* requests the middleware passed to next(), per key and window

vars == <<GRAPH_API_KEY, DEMO_MODE, ANTHROPIC_API_KEY, DEMO_DATA, anthropicClient,
          now, pc, call, start, branches, result, ruleBased, response, genCalls,
          store, nextCalls>>

envVars == <<GRAPH_API_KEY, DEMO_MODE, ANTHROPIC_API_KEY>>
nlqVars == <<anthropicClient, ruleBased, response, genCalls>>
limiterVars == <<store, nextCalls>>

\* a record with no field
EmptyRec == [k \in {} |-> k]

\* a key of an object literal that is left out when its value is null/undefined
Opt(name, v) == IF v = NULL THEN EmptyRec ELSE name :> v

\* a JavaScript array held as a value: the record [items |-> <<...>>]
Arr(s) == [items |-> s]

NoCall == [op |-> "none"]
NoResult == [status |-> "none"]
NoOut == [none |-> TRUE]
NoResponse == [kind |-> "none"]

(* ---- graph/client.ts ---------------------------------------------------- *)

\* isDemoMode(): no gateway credential
isDemoMode == ~GRAPH_API_KEY

\* isDemo() of aave.ts and uniswap.ts
isDemo == isDemoMode \/ DEMO_MODE

\* isDemoMode() of morpho.ts
MorphoIsDemoMode == DEMO_MODE

\* the ways a live call fails: transport error, non-2xx status, GraphQL errors,
\* a body without data
FailCauses == {"transport", "http", "graphql", "nodata"}

\* Error("Subgraph query failed [protocol/chain]: msg")
SubgraphError(protocol, chain, cause) ==
  [text |-> "Subgraph query failed", protocol |-> protocol, chain |-> chain,
   cause |-> cause]

\* Error("<name> not supported on <chain>. Supported: <list>")
UnsupportedChainError(protocol, chain, supported) ==
  [text |-> "not supported on chain", protocol |-> protocol, chain |-> chain,
   supported |-> supported]

(* ---- what the live backends answer -------------------------------------- *)

LiveLists(S) == UNION {[1..n -> S] : n \in 0..MaxLive}

RawReserves ==
  {[symbol |-> "cbETH", totalLiquidityUSD |-> Str(700), liquidityRate |-> Str(210004)],
   [symbol |-> "GHO",   totalLiquidityUSD |-> BadStr,   liquidityRate |-> Str(650005)]}

RawPools ==
  {[pair |-> "WETH/USDT", totalValueLockedUSD |-> Str(900), volumeUSD |-> Str(40), feesUSD |-> Str(2)],
   [pair |-> "DEGEN/WETH", totalValueLockedUSD |-> Str(300), volumeUSD |-> Str(80), feesUSD |-> BadStr]}

RawFactories ==
  {[totalValueLockedUSD |-> Str(5000), poolCount |-> Str(12)]}

RawMarkets ==
  {[uniqueKey |-> "live-USDC/WETH", supplyAssetsUsd |-> Str(600), supplyApy |-> Str(31000), borrowApy |-> Str(52000)],
   [uniqueKey |-> "live-DAI/WBTC",  supplyAssetsUsd |-> BadStr,   supplyApy |-> Str(44000), borrowApy |-> Str(47000)]}

RawVaults ==
  {[symbol |-> "liveUSDC", totalAssetsUsd |-> Str(800)],
   [symbol |-> "liveWETH", totalAssetsUsd |-> Str(950)]}

\* the raw records the backend of an accessor holds
RawItemsOf(fn) ==
  CASE fn \in {"getAaveTVL", "getAaveLendingRates"} -> RawReserves
    [] fn \in {"getUniswapTVL", "getUniswapTopPools"} -> RawPools
    [] fn \in {"getMorphoTVL", "getMorphoMarketRates"} -> RawMarkets
    [] fn = "getMorphoTopVaults" -> RawVaults

\* a settled live list query: a list (a missing list reads as [] through ?? [])
\* or a failure
ListResponses(fn) ==
  {[ok |-> TRUE, items |-> l, cause |-> "none"] : l \in LiveLists(RawItemsOf(fn))}
    \cup {[ok |-> FALSE, items |-> <<>>, cause |-> c] : c \in FailCauses}

\* a settled factory query of getUniswapTVL: factories[0], no factory, or a failure
FactoryResponses ==
  {[ok |-> TRUE, factories |-> l, cause |-> "none"] : l \in {<<>>} \cup {<<f>> : f \in RawFactories}}
    \cup {[ok |-> FALSE, factories |-> <<>>, cause |-> c] : c \in FailCauses}

(* ---- the accessors: from the call to the first await ------------------- *)

Accessors ==
  {"getAaveTVL", "getAaveLendingRates", "getUniswapTVL", "getUniswapTopPools",
   "getMorphoTVL", "getMorphoMarketRates", "getMorphoTopVaults"}

ProtocolOf(fn) ==
  CASE fn \in {"getAaveTVL", "getAaveLendingRates"} -> "aave-v3"
    [] fn \in {"getUniswapTVL", "getUniswapTopPools"} -> "uniswap-v3"
    [] OTHER -> "morpho-blue"

SupportedChainsOf(fn) ==
  CASE ProtocolOf(fn) = "aave-v3" -> AAVE_SUPPORTED_CHAINS
    [] ProtocolOf(fn) = "uniswap-v3" -> UNISWAP_SUPPORTED_CHAINS
    [] OTHER -> MORPHO_SUPPORTED_CHAINS

\* the test each accessor makes before it queries its backend
AccessorIsDemo(fn) ==
  IF ProtocolOf(fn) = "morpho-blue" THEN MorphoIsDemoMode ELSE isDemo

\* the synthetic value of an accessor for a supported chain
DemoValue(fn, chain, limit, orderBy, data) ==
  CASE fn = "getAaveTVL" -> getDemoTVL(data, chain)
    [] fn = "getAaveLendingRates" -> getDemoRates(data, chain, limit)
    [] fn = "getUniswapTVL" -> UniswapDemoTVL(chain)
    [] fn = "getUniswapTopPools" -> Arr(UniswapDemoTopPools(chain, limit, orderBy))
    [] fn = "getMorphoTVL" -> MorphoDemoTVL(chain, limit)
    [] fn = "getMorphoMarketRates" -> MorphoDemoRates(chain, limit, orderBy)
    [] fn = "getMorphoTopVaults" -> MorphoDemoVaults(chain, limit)

\* an accessor call with its outcome; cause is the failure of its live list
\* query ("none" while there is none), the error its catch block logs
Branch(c, status, out) ==
  [fn |-> c.fn, chain |-> c.chain, limit |-> c.limit, orderBy |-> c.orderBy,
   status |-> status, out |-> out, cause |-> "none"]

\* an accessor call c = [fn, chain, limit, orderBy] run up to its first await:
\* it throws on an unsupported chain, returns the synthetic value in demo mode,
\* and otherwise waits for its backend
AccessorStart(c, data) ==
  IF ~Includes(SupportedChainsOf(c.fn), c.chain)
  THEN Branch(c, "rejected",
              UnsupportedChainError(ProtocolOf(c.fn), c.chain, SupportedChainsOf(c.fn)))
  ELSE IF AccessorIsDemo(c.fn)
  THEN Branch(c, "fulfilled", DemoValue(c.fn, c.chain, c.limit, c.orderBy, data))
  ELSE Branch(c, "pending", NoOut)

\* DEMO_DATA after the call: getDemoRates sorts the dataset of the chain in place
StoreAfter(c, data) ==
  IF /\ c.fn = "getAaveLendingRates"
     /\ Includes(SupportedChainsOf(c.fn), c.chain)
     /\ AccessorIsDemo(c.fn)
  THEN getDemoRatesStore(data, c.chain)
  ELSE data

RECURSIVE StartAll(_, _)
\* the calls of a list made one after the other, as Promise.allSettled([...])
\* evaluates its argument: the branches, and DEMO_DATA after the last call
StartAll(calls, data) ==
  IF calls = <<>> THEN [branches |-> <<>>, data |-> data]
  ELSE LET rest == StartAll(Tail(calls), StoreAfter(calls[1], data))
       IN  [branches |-> <<AccessorStart(calls[1], data)>> \o rest.branches,
            data |-> rest.data]

(* ---- the accessors: when the backend settles ---------------------------- *)

\* the live value of a list accessor built from the raw records the backend sent
LiveValue(b, items) ==
  CASE b.fn = "getAaveTVL" ->
         [protocol |-> "aave-v3", chain |-> b.chain,
          totalTVLUSD |-> SumOf(MapFormatReserve(items), "tvlUSD"),
          reserveCount |-> Len(items),
          topReserves |-> Slice0(MapFormatReserve(items), 10)]
    [] b.fn = "getAaveLendingRates" ->
         [protocol |-> "aave-v3", chain |-> b.chain,
          rates |-> SortDescBy(MapFormatReserve(items), "supplyAPY")]
    [] b.fn = "getUniswapTopPools" -> Arr(MapFormatPool(items))
    [] b.fn = "getMorphoTVL" ->
         [protocol |-> "morpho-blue", chain |-> b.chain,
          totalTVLUSD |-> SumOf(MapFormatMarket(items), "tvlUSD"),
          marketCount |-> Len(items),
          topMarkets |-> MapFormatMarket(items)]
    [] b.fn = "getMorphoMarketRates" ->
         [protocol |-> "morpho-blue", chain |-> b.chain,
          markets |-> Slice0(SortDescBy(MapFormatMarket(items),
                                        MarketSortKey(b.orderBy)),
                             b.limit)]
    [] b.fn = "getMorphoTopVaults" ->
         [protocol |-> "morpho-blue", chain |-> b.chain,
          vaults |-> MapFormatVault(items)]

\* what a Morpho accessor returns from its catch block: the demo dataset; the
\* catch block of getMorphoMarketRates always orders by supplyAPY
MorphoFallback(b) ==
  CASE b.fn = "getMorphoTVL" -> MorphoDemoTVL(b.chain, b.limit)
    [] b.fn = "getMorphoMarketRates" -> MorphoDemoRates(b.chain, b.limit, "supplyAPY")
    [] b.fn = "getMorphoTopVaults" -> MorphoDemoVaults(b.chain, b.limit)

\* getUniswapTVL after its factory query settled; a failed factory query is
\* caught and the totals are computed from the pools
UniswapLiveTVL(b, pools, resp) ==
  LET factory == IF resp.ok /\ resp.factories # <<>> THEN resp.factories[1]
                 ELSE [totalValueLockedUSD |-> BadStr, poolCount |-> Str(0)]
  IN  [protocol |-> "uniswap-v3", chain |-> b.chain,
       totalTVLUSD |-> IF resp.ok THEN parseUSD(factory.totalValueLockedUSD)
                       ELSE SumOf(MapFormatPool(pools), "tvlUSD"),
       poolCount |-> IF resp.ok THEN parseUSD(factory.poolCount) ELSE Len(pools),
       topPools |-> Slice0(MapFormatPool(pools), 10)]

\* a pending branch after its list query settled with resp
SettleList(b, resp) ==
  IF resp.ok
  THEN IF b.fn = "getUniswapTVL"
       THEN [b EXCEPT !.status = "pending2", !.out = [pools |-> resp.items]]
       ELSE [b EXCEPT !.status = "fulfilled", !.out = LiveValue(b, resp.items)]
  ELSE IF ProtocolOf(b.fn) = "morpho-blue"
       THEN [b EXCEPT !.status = "fulfilled", !.out = MorphoFallback(b),
                      !.cause = resp.cause]
       ELSE [b EXCEPT !.status = "rejected",
                      !.out = SubgraphError(ProtocolOf(b.fn), b.chain, resp.cause),
                      !.cause = resp.cause]

\* a getUniswapTVL branch after its factory query settled with resp
SettleFactory(b, resp) ==
  [b EXCEPT !.status = "fulfilled", !.out = UniswapLiveTVL(b, b.out.pools, resp)]

(* ---- the dispatcher (nlq/translator.ts, executeQuery) ------------------- *)

ACall(fn, chain, limit, orderBy) ==
  [fn |-> fn, chain |-> chain, limit |-> limit, orderBy |-> orderBy]

\* parsed.limit ?? 10
LimitOf(parsed) == IF "limit" \in DOMAIN parsed THEN parsed.limit ELSE 10

\* one call per chain of the list, in the order of the list
CallsOver(fn, chains, limit, orderBy) ==
  [i \in 1..Len(chains) |-> ACall(fn, chains[i], limit, orderBy)]

\* data = await getAaveTVL(chain) / await getAaveTVLAllChains()
AaveTVLPlan(chain) ==
  IF chain # NULL /\ chain # "ethereum"
  THEN [merge |-> "single", via |-> "getAaveTVL",
        calls |-> <<ACall("getAaveTVL", chain, 0, "none")>>]
  ELSE [merge |-> "list", via |-> "getAaveTVLAllChains",
        calls |-> CallsOver("getAaveTVL", AAVE_SUPPORTED_CHAINS, 0, "none")]

\* AaveRatesPlan with the bug of leaving optimism out of the fan-out
AaveRatesPlan_TwoChains(chain, limit) ==
  IF chain # NULL /\ chain # "ethereum"
  THEN [merge |-> "single", via |-> "getAaveLendingRates",
        calls |-> <<ACall("getAaveLendingRates", chain, limit, "none")>>]
  ELSE [merge |-> "list", via |-> "getAaveLendingRates",
        calls |-> CallsOver("getAaveLendingRates", <<"base", "arbitrum">>, limit, "none")]

\* data = await getAaveLendingRates(chain, limit) / Promise.allSettled of three
AaveRatesPlan(chain, limit) ==
  IF chain # NULL /\ chain # "ethereum"
  THEN [merge |-> "single", via |-> "getAaveLendingRates",
        calls |-> <<ACall("getAaveLendingRates", chain, limit, "none")>>]
  ELSE [merge |-> "list", via |-> "getAaveLendingRates",
        calls |-> CallsOver("getAaveLendingRates",
                            <<"base", "arbitrum", "optimism">>, limit, "none")]

\* data = await getUniswapTVL(chain) / await getUniswapTVLAllChains()
UniswapTVLPlan(chain) ==
  IF chain # NULL /\ (chain = "base" \/ chain = "arbitrum")
  THEN [merge |-> "single", via |-> "getUniswapTVL",
        calls |-> <<ACall("getUniswapTVL", chain, 0, "none")>>]
  ELSE [merge |-> "list", via |-> "getUniswapTVLAllChains",
        calls |-> CallsOver("getUniswapTVL", UNISWAP_SUPPORTED_CHAINS, 0, "none")]

\* data = await getUniswapTopPools(chain, limit, orderBy) / the map of two chains
UniswapPoolsPlan(chain, limit, orderBy) ==
  IF chain # NULL /\ (chain = "base" \/ chain = "arbitrum")
  THEN [merge |-> "single", via |-> "getUniswapTopPools",
        calls |-> <<ACall("getUniswapTopPools", chain, limit, orderBy)>>]
  ELSE [merge |-> "map", via |-> "getUniswapTopPools",
        calls |-> CallsOver("getUniswapTopPools", <<"base", "arbitrum">>, limit, orderBy)]

\* NoPlan with the bug of falling through to the default TVL query
NoPlan_DefaultTVL == AaveTVLPlan(NULL)

\* the unknown-protocol branch: no accessor is called
NoPlan == [merge |-> "none", via |-> "none", calls |-> <<>>]

\* the branch of executeQuery that an intent selects: the exported accessor it
\* calls (via), the single-chain calls that follow from it and how their
\* outcomes become data
ExecPlan(parsed) ==
  LET chain == parsed.chain
      action == parsed.action
      limit == LimitOf(parsed)
  IN
  IF parsed.protocol = "aave-v3" THEN
    IF action = "tvl" THEN AaveTVLPlan(chain)
    ELSE IF action = "rates" THEN AaveRatesPlan(chain, limit)
    ELSE AaveTVLPlan(chain)
  ELSE IF parsed.protocol = "uniswap-v3" THEN
    IF action = "tvl" THEN UniswapTVLPlan(chain)
    ELSE IF action = "pools" \/ action = "volume"
    THEN UniswapPoolsPlan(chain, limit, IF action = "volume" THEN "volume" ELSE "tvl")
    ELSE UniswapTVLPlan(chain)
  ELSE NoPlan

CouldNotDetermineProtocol ==
  [text |-> "Could not determine protocol. Try specifying 'Aave' or 'Uniswap' in your query."]

\* JavaScript null as a value of data
NullValue == [null |-> TRUE]

\* Settled with the bug of waiting for a rejected call as for a pending one
Settled_OnlyFulfilled(b) == b.status = "fulfilled"

\* the promise of a branch has settled
Settled(b) == b.status \in {"fulfilled", "rejected"}

\* AllSettled with the bug of Promise.all: done at the first rejection
AllSettled_FirstRejection(brs) ==
  \/ \A i \in 1..Len(brs) : Settled(brs[i])
  \/ \E i \in 1..Len(brs) : brs[i].status = "rejected"

\* Promise.allSettled has settled: no branch is pending
AllSettled(brs) == \A i \in 1..Len(brs) : Settled(brs[i])

RECURSIVE FulfilledValues(_)
\* results.filter(r => r.status === "fulfilled").map(r => r.value)
FulfilledValues(brs) ==
  IF brs = <<>> THEN <<>>
  ELSE (IF brs[1].status = "fulfilled" THEN <<brs[1].out>> ELSE <<>>)
         \o FulfilledValues(Tail(brs))

\* the return statement at the end of the try block of executeQuery
SuccessEnvelope(parsed, data, t0, t) ==
  [success |-> TRUE, query |-> parsed.rawIntent, data |-> data,
   executionTimeMs |-> t - t0]
    @@ Opt("protocol", parsed.protocol) @@ Opt("chain", parsed.chain)

\* CatchEnvelope with the bug of replacing the message by a fixed text
CatchEnvelope_FixedText(parsed, msg, t0, t) ==
  [success |-> FALSE, query |-> parsed.rawIntent, error |-> [text |-> "Internal error"],
   executionTimeMs |-> t - t0]
    @@ Opt("protocol", parsed.protocol) @@ Opt("chain", parsed.chain)

\* CatchEnvelope with the bug of carrying data: null
CatchEnvelope_WithData(parsed, msg, t0, t) ==
  [success |-> FALSE, query |-> parsed.rawIntent, error |-> msg, data |-> NullValue,
   executionTimeMs |-> t - t0]
    @@ Opt("protocol", parsed.protocol) @@ Opt("chain", parsed.chain)

\* the return statement of the catch block of executeQuery
CatchEnvelope(parsed, msg, t0, t) ==
  [success |-> FALSE, query |-> parsed.rawIntent, error |-> msg,
   executionTimeMs |-> t - t0]
    @@ Opt("protocol", parsed.protocol) @@ Opt("chain", parsed.chain)

\* the return statement of the unknown-protocol branch of executeQuery
UnknownProtocolEnvelope(parsed, t0, t) ==
  [success |-> FALSE, query |-> parsed.rawIntent,
   error |-> CouldNotDetermineProtocol, executionTimeMs |-> t - t0]

\* ExecuteQueryResult with the bug of failing when no chain of the map answers
ExecuteQueryResult_EmptyMapFails(parsed, merge, brs, t0, t) ==
  CASE merge = "none" ->
         [status |-> "fulfilled", out |-> UnknownProtocolEnvelope(parsed, t0, t)]
    [] merge = "single" ->
         IF brs[1].status = "fulfilled"
         THEN [status |-> "fulfilled",
               out |-> SuccessEnvelope(parsed, brs[1].out, t0, t)]
         ELSE [status |-> "fulfilled",
               out |-> CatchEnvelope(parsed, brs[1].out, t0, t)]
    [] merge = "list" ->
         [status |-> "fulfilled",
          out |-> SuccessEnvelope(parsed, Arr(FulfilledValues(brs)), t0, t)]
    [] merge = "map" ->
         IF brs[1].status = "rejected" /\ brs[2].status = "rejected"
         THEN [status |-> "fulfilled", out |-> CatchEnvelope(parsed, brs[1].out, t0, t)]
         ELSE
         [status |-> "fulfilled",
          out |-> SuccessEnvelope(parsed,
                    [base |-> IF brs[1].status = "fulfilled" THEN brs[1].out ELSE NullValue,
                     arbitrum |-> IF brs[2].status = "fulfilled" THEN brs[2].out ELSE NullValue],
                    t0, t)]

\* what executeQuery returns once every accessor call it awaits has settled
ExecuteQueryResult(parsed, merge, brs, t0, t) ==
  CASE merge = "none" ->
         [status |-> "fulfilled", out |-> UnknownProtocolEnvelope(parsed, t0, t)]
    [] merge = "single" ->
         IF brs[1].status = "fulfilled"
         THEN [status |-> "fulfilled",
               out |-> SuccessEnvelope(parsed, brs[1].out, t0, t)]
         ELSE [status |-> "fulfilled",
               out |-> CatchEnvelope(parsed, brs[1].out, t0, t)]
    [] merge = "list" ->
         [status |-> "fulfilled",
          out |-> SuccessEnvelope(parsed, Arr(FulfilledValues(brs)), t0, t)]
    [] merge = "map" ->
         [status |-> "fulfilled",
          out |-> SuccessEnvelope(parsed,
                    [base |-> IF brs[1].status = "fulfilled" THEN brs[1].out ELSE NullValue,
                     arbitrum |-> IF brs[2].status = "fulfilled" THEN brs[2].out ELSE NullValue],
                    t0, t)]

\* ResultOf with the bug of a fan-out that fails when one of its branches fails
ResultOf_FailFast(c, brs, t0, t) ==
  IF c.op = "executeQuery" THEN ExecuteQueryResult(c.parsed, c.merge, brs, t0, t)
  ELSE IF c.merge = "list"
  THEN IF \E i \in 1..Len(brs) : brs[i].status = "rejected"
       THEN [status |-> "rejected",
             out |-> brs[CHOOSE i \in 1..Len(brs) : brs[i].status = "rejected"].out]
       ELSE [status |-> "fulfilled", out |-> Arr(FulfilledValues(brs))]
  ELSE [status |-> brs[1].status, out |-> brs[1].out]

\* what the call in flight returns once every branch has settled
ResultOf(c, brs, t0, t) ==
  IF c.op = "executeQuery" THEN ExecuteQueryResult(c.parsed, c.merge, brs, t0, t)
  ELSE IF c.merge = "list" THEN [status |-> "fulfilled", out |-> Arr(FulfilledValues(brs))]
  ELSE [status |-> brs[1].status, out |-> brs[1].out]

(* ---- actions ----------------------------------------------------------- *)

Limits == {2}

\* the intents executeQuery is called with
Intents ==
  {[protocol |-> p, chain |-> c, action |-> a, rawIntent |-> "q"] @@ l :
     p \in Protocol \cup {NULL}, c \in Chain \cup {NULL}, a \in Action,
     l \in {EmptyRec} \cup {"limit" :> n : n \in Limits}}

\* the calls have been made from position at: the call completes at once when
\* none of them waits for a backend, and waits otherwise
BeginAt(at, c, calls) ==
  LET started == StartAll(calls, DEMO_DATA)
  IN  /\ pc = at
      /\ call' = c
      /\ start' = now
      /\ branches' = started.branches
      /\ DEMO_DATA' = started.data
      /\ IF AllSettled(started.branches)
         THEN /\ pc' = "done"
              /\ result' = ResultOf(c, started.branches, now, now)
         ELSE /\ pc' = "waiting"
              /\ result' = NoResult
      /\ UNCHANGED <<envVars, limiterVars, nlqVars, now>>

\* a call made by the caller of the module
Begin(c, calls) == BeginAt("idle", c, calls)

\* executeQuery(parsed)
ExecuteQuery(parsed) ==
  Begin([op |-> "executeQuery", parsed |-> parsed, merge |-> ExecPlan(parsed).merge,
         via |-> ExecPlan(parsed).via],
        ExecPlan(parsed).calls)

\* a direct call of a single-chain accessor
CallAccessor(fn, chain, limit, orderBy) ==
  Begin([op |-> fn, merge |-> "single", via |-> fn],
        <<ACall(fn, chain, limit, orderBy)>>)

\* getAaveTVLAllChains(), getUniswapTVLAllChains(), getMorphoTVLAllChains()
CallAllChains(fn) ==
  Begin([op |-> fn \o "AllChains", merge |-> "list", via |-> fn \o "AllChains"],
        CallsOver(fn, SupportedChainsOf(fn), IF fn = "getMorphoTVL" THEN 20 ELSE 0, "none"))

\* branch i settles; when it was the last one the call completes
Settle(i, b) ==
  LET brs == [branches EXCEPT ![i] = b]
  IN  /\ branches' = brs
      /\ IF AllSettled(brs)
         THEN /\ pc' = "done"
              /\ result' = ResultOf(call, brs, start, now)
         ELSE UNCHANGED <<pc, result>>
      /\ UNCHANGED <<envVars, limiterVars, nlqVars, DEMO_DATA, now, call, start>>

\* the backend answers the list query of branch i
LiveSettle(i) ==
  /\ pc = "waiting"
  /\ i \in 1..Len(branches)
  /\ branches[i].status = "pending"
  /\ \E resp \in ListResponses(branches[i].fn) : Settle(i, SettleList(branches[i], resp))

\* the backend answers the factory query of a getUniswapTVL branch
FactorySettle(i) ==
  /\ pc = "waiting"
  /\ i \in 1..Len(branches)
  /\ branches[i].status = "pending2"
  /\ \E resp \in FactoryResponses : Settle(i, SettleFactory(branches[i], resp))

\* the caller has taken the result
Return ==
  /\ pc = "done"
  /\ pc' = "idle"
  /\ call' = NoCall
  /\ branches' = <<>>
  /\ result' = NoResult
  /\ start' = 0
  /\ ruleBased' = NoResult
  /\ response' = NoResponse
  /\ genCalls' = 0
  /\ UNCHANGED <<envVars, limiterVars, anthropicClient, DEMO_DATA, now>>

\* time passes
Tick ==
  /\ now < MaxClock
  /\ now' = now + 1
  /\ UNCHANGED <<envVars, limiterVars, nlqVars, DEMO_DATA, pc, call, start, branches, result>>

OrderBys(fn) ==
  CASE fn = "getUniswapTopPools" -> {"tvl", "volume", "fees"}
    [] fn = "getMorphoMarketRates" -> {"supplyAPY", "borrowAPY", "tvl"}
    [] OTHER -> {"none"}

AccessorLimits(fn) ==
  IF fn \in {"getAaveTVL", "getUniswapTVL"} THEN {0} ELSE Limits \cup {10}

Init ==
  /\ GRAPH_API_KEY \in BOOLEAN
  /\ DEMO_MODE \in BOOLEAN
  /\ ANTHROPIC_API_KEY = FALSE
  /\ DEMO_DATA = AaveInitialDemoData
  /\ anthropicClient = FALSE
  /\ now = 0
  /\ pc = "idle"
  /\ call = NoCall
  /\ start = 0
  /\ branches = <<>>
  /\ result = NoResult
  /\ ruleBased = NoResult
  /\ response = NoResponse
  /\ genCalls = 0
  /\ store = EmptyRec
  /\ nextCalls = EmptyRec

Next ==
  \/ pc = "idle" /\ \E parsed \in Intents : ExecuteQuery(parsed)
  \/ pc = "idle" /\ \E fn \in Accessors, chain \in Chain :
       \E limit \in AccessorLimits(fn), orderBy \in OrderBys(fn) :
         CallAccessor(fn, chain, limit, orderBy)
  \/ \E fn \in {"getAaveTVL", "getUniswapTVL", "getMorphoTVL"} : CallAllChains(fn)
  \/ \E i \in 1..3 : LiveSettle(i)
  \/ \E i \in 1..3 : FactorySettle(i)
  \/ Return
  \/ Tick

Spec == Init /\ [][Next]_vars

(* ---- the translator (nlq/translator.ts): Stage 1 ----------------------- *)

\* A query is a list of words separated by blanks.  Each regular expression of
\* parseWithRules is the set of the words of the vocabulary it matches; the
\* pattern "total value locked" is covered by its alternative "locked".
Words ==
  {"Aave", "uniswap", "morpho", "base", "tvl", "rates", "pools", "volume",
   "top", "5", "0"}

Queries == UNION {[1..n -> Words] : n \in 0..MaxWords}

\* String.prototype.toLowerCase on a word of the vocabulary
ToLowerCase(w) == IF w = "Aave" THEN "aave" ELSE w

\* String.prototype.toUpperCase on a token
ToUpperCase(w) == IF w = "aave" THEN "AAVE" ELSE w

LowerCased(query) == [i \in 1..Len(query) |-> ToLowerCase(query[i])]

ReAave == {"aave"}                          \* /aave/
ReUniswap == {"uniswap"}                    \* /uniswap|uni\b/
ReBase == {"base"}                          \* /\bbase\b/
ReArbitrum == {"arbitrum"}                         \* /arbitrum|arb\b/
ReOptimism == {}                            \* /optimism|\bop\b/
ReEthereum == {"ethereum"}                  \* /ethereum|mainnet|\beth\b/
ReTvl == {"tvl"}                            \* /tvl|total value locked|locked/
ReRates == {"rates"}                        \* /rate|apy|apr|yield|interest|lending|borrow|supply/
RePools == {"pools"}                        \* /pool|pair|liquidity/
ReVolume == {"volume"}                      \* /volume|vol\b/
ReToken == {"aave"}                         \* /\b(usdc|usdt|dai|eth|weth|btc|wbtc|matic|arb|op|link|aave)\b/
ReTop == {"top"}                            \* a word that ends in "top"
ReDigits == {"5", "0"}                         \* a word that starts with digits

\* regex.test(q)
Test(re, q) == \E i \in 1..Len(q) : q[i] \in re

\* parseInt(digits, 10)
parseInt(w) == IF w = "5" THEN 5 ELSE 0

\* a JavaScript string is truthy unless it is empty
Truthy(str) == str # ""

\* q.match(/top\s+(\d+)/): the places where the pattern matches
TopMatches(q) == {i \in 1..(Len(q) - 1) : q[i] \in ReTop /\ q[i + 1] \in ReDigits}

\* the first match of a word set in q
FirstIn(re, q) == CHOOSE i \in 1..Len(q) : q[i] \in re /\ \A j \in 1..(i - 1) : q[j] \notin re

\* parseWithRules with the bug of taking the action of the keyword that comes
\* first in the query
parseWithRules_FirstKeyword(query) ==
  LET q == LowerCased(query)
      protocol == IF Test(ReAave, q) THEN "aave-v3"
                  ELSE IF Test(ReUniswap, q) THEN "uniswap-v3"
                  ELSE NULL
      chain == IF Test(ReBase, q) THEN "base"
               ELSE IF Test(ReArbitrum, q) THEN "arbitrum"
               ELSE IF Test(ReOptimism, q) THEN "optimism"
               ELSE IF Test(ReEthereum, q) THEN "ethereum"
               ELSE NULL
      keywords == ReTvl \cup ReRates \cup RePools \cup ReVolume
      action == IF ~Test(keywords, q) THEN "unknown"
                ELSE LET w == q[FirstIn(keywords, q)]
                     IN  IF w \in ReTvl THEN "tvl"
                         ELSE IF w \in ReRates THEN "rates"
                         ELSE IF w \in RePools THEN "pools"
                         ELSE "volume"
      token == IF Test(ReToken, q) THEN ToUpperCase(q[FirstIn(ReToken, q)]) ELSE NULL
      limit == IF TopMatches(q) # {}
               THEN parseInt(q[(CHOOSE i \in TopMatches(q) :
                                  \A j \in TopMatches(q) : i <= j) + 1])
               ELSE 10
  IN  [protocol |-> protocol, chain |-> chain, action |-> action, limit |-> limit,
       rawIntent |-> query] @@ Opt("token", token)

\* parseWithRules(query): the result of Stage 1
parseWithRules(query) ==
  LET q == LowerCased(query)
      protocol == IF Test(ReAave, q) THEN "aave-v3"
                  ELSE IF Test(ReUniswap, q) THEN "uniswap-v3"
                  ELSE NULL
      chain == IF Test(ReBase, q) THEN "base"
               ELSE IF Test(ReArbitrum, q) THEN "arbitrum"
               ELSE IF Test(ReOptimism, q) THEN "optimism"
               ELSE IF Test(ReEthereum, q) THEN "ethereum"
               ELSE NULL
      initial == "unknown"     \* let action = "unknown"
      action == IF Test(ReTvl, q) THEN "tvl"
                ELSE IF Test(ReRates, q) THEN "rates"
                ELSE IF Test(RePools, q) THEN "pools"
                ELSE IF Test(ReVolume, q) THEN "volume"
                ELSE IF protocol = "aave-v3" /\ ~Truthy(initial) THEN "tvl"
                ELSE initial
      token == IF Test(ReToken, q) THEN ToUpperCase(q[FirstIn(ReToken, q)]) ELSE NULL
      limit == IF TopMatches(q) # {}
               THEN parseInt(q[(CHOOSE i \in TopMatches(q) :
                                  \A j \in TopMatches(q) : i <= j) + 1])
               ELSE 10
  IN  [protocol |-> protocol, chain |-> chain, action |-> action, limit |-> limit,
       rawIntent |-> query] @@ Opt("token", token)

(* ---- the translator: Stage 2 -------------------------------------------- *)

\* longest text of the generative service, in segments
MaxSegs == 2

\* the JSON objects the generative service writes; a key that is left out (or
\* null) is absent from the record
Stage2Objects ==
  {EmptyRec,
   [protocol |-> "aave-v3", action |-> "rates"],
   [protocol |-> "uniswap-v3", chain |-> "arbitrum", action |-> "pools", token |-> "USDC",
    limit |-> 3, rawIntent |-> <<"restated">>],
   [protocol |-> "morpho-blue", chain |-> "base", action |-> "vaults",
    nulled |-> {"limit", "token"}]}

\* a text is a list of segments: prose without braces, a "{" followed by
\* prose, prose followed by a "}", or a well-formed JSON object; no two
\* segments that are not objects join into a well-formed object
Segments ==
  {[seg |-> "prose"], [seg |-> "open"], [seg |-> "close"]}
    \cup {[seg |-> "object", obj |-> o] : o \in Stage2Objects}

Texts == UNION {[1..n -> Segments] : n \in 0..MaxSegs}

\* what client.messages.create settles with: a rejection, a first content block
\* that is not text, or a text
Stage2Responses ==
  {[kind |-> "error"], [kind |-> "nontext"]}
    \cup {[kind |-> "text", text |-> t] : t \in Texts}

HasOpen(sg) == sg.seg \in {"open", "object"}
HasClose(sg) == sg.seg \in {"close", "object"}

\* content.text.match(/\{[\s\S]*\}/): the segments from the first "{" to the
\* last "}" after it, or <<>> when there is no match
JsonMatch(text) ==
  LET opens == {i \in 1..Len(text) : HasOpen(text[i])}
      closes == {i \in 1..Len(text) : HasClose(text[i])}
      first == CHOOSE i \in opens : \A j \in opens : i <= j
      last == CHOOSE i \in closes : \A j \in closes : j <= i
  IN  IF opens = {} \/ closes = {} THEN <<>>
      ELSE IF last < first THEN <<>>
      ELSE SubSeq(text, first, last)

\* JSON.parse accepts the match exactly when it is one object
JsonParses(m) == Len(m) = 1 /\ m[1].seg = "object"

\* the fields an object writes as null; they are kept out of its domain
Nulled(obj) == IF "nulled" \in DOMAIN obj THEN obj.nulled ELSE {}

\* field ?? dflt: the default for a field that is undefined or null
Coalesce(obj, field, dflt) ==
  IF field \in DOMAIN obj /\ field \notin Nulled(obj) THEN obj[field] ELSE dflt

\* Stage2Intent with the bug of taking tvl for a missing action
Stage2Intent_ActionTvl(parsed, query) ==
  [protocol |-> Coalesce(parsed, "protocol", NULL),
   chain |-> Coalesce(parsed, "chain", NULL),
   action |-> Coalesce(parsed, "action", "tvl"),
   limit |-> Coalesce(parsed, "limit", 10),
   rawIntent |-> Coalesce(parsed, "rawIntent", query)]
    @@ Opt("token", Coalesce(parsed, "token", NULL))

\* the object literal parseNaturalLanguageQuery returns from Stage 2
Stage2Intent(parsed, query) ==
  [protocol |-> Coalesce(parsed, "protocol", NULL),
   chain |-> Coalesce(parsed, "chain", NULL),
   action |-> Coalesce(parsed, "action", "unknown"),
   limit |-> Coalesce(parsed, "limit", 10),
   rawIntent |-> Coalesce(parsed, "rawIntent", query)]
    @@ Opt("token", Coalesce(parsed, "token", NULL))

\* the try block of parseNaturalLanguageQuery after the service settled: TRUE
\* when no statement of it throws
Stage2Succeeds(resp) ==
  /\ resp.kind = "text"
  /\ JsonMatch(resp.text) # <<>>
  /\ JsonParses(JsonMatch(resp.text))

\* Stage2Result with the bug of returning the defaults instead of ruleBased
Stage2Result_Defaults(resp, query, rb) ==
  IF Stage2Succeeds(resp)
  THEN Stage2Intent(JsonMatch(resp.text)[1].obj, query)
  ELSE Stage2Intent(EmptyRec, query)

\* Stage2Result with the bug of clearing the Stage 1 result when Stage 2 fails
Stage2Result_Unresolved(resp, query, rb) ==
  IF Stage2Succeeds(resp)
  THEN Stage2Intent(JsonMatch(resp.text)[1].obj, query)
  ELSE [rb EXCEPT !.protocol = NULL, !.action = "unknown"]

\* what parseNaturalLanguageQuery returns once the service settled with resp
Stage2Result(resp, query, rb) ==
  IF Stage2Succeeds(resp)
  THEN Stage2Intent(JsonMatch(resp.text)[1].obj, query)
  ELSE rb

\* Stage1Resolved with the bug of asking for a chain as well
Stage1Resolved_NeedsChain(rb) ==
  rb.action # "unknown" /\ rb.protocol # NULL /\ rb.chain # NULL

\* the Stage 1 exit of parseNaturalLanguageQuery
Stage1Resolved(rb) == rb.action # "unknown" /\ rb.protocol # NULL

\* parseNaturalLanguageQuery(query) up to its first await
ParseNLQ(query) ==
  LET rb == parseWithRules(query)
  IN  /\ pc = "idle"
      /\ call' = [op |-> "parseNaturalLanguageQuery", query |-> query]
      /\ ruleBased' = rb
      /\ IF Stage1Resolved(rb)
         THEN /\ pc' = "done"
              /\ result' = [status |-> "fulfilled", out |-> rb]
              /\ UNCHANGED <<anthropicClient, genCalls>>
         ELSE IF ~anthropicClient /\ ~ANTHROPIC_API_KEY
         THEN \* getAnthropic() throws, the catch block returns ruleBased
              /\ pc' = "done"
              /\ result' = [status |-> "fulfilled", out |-> rb]
              /\ UNCHANGED <<anthropicClient, genCalls>>
         ELSE /\ pc' = "stage2"
              /\ anthropicClient' = TRUE
              /\ genCalls' = genCalls + 1
              /\ result' = NoResult
      /\ UNCHANGED <<envVars, limiterVars, DEMO_DATA, now, start, branches, response>>

\* client.messages.create settles and parseNaturalLanguageQuery returns
Stage2Settle(resp) ==
  /\ pc = "stage2"
  /\ pc' = "done"
  /\ response' = resp
  /\ result' = [status |-> "fulfilled", out |-> Stage2Result(resp, call.query, ruleBased)]
  /\ UNCHANGED <<envVars, limiterVars, anthropicClient, ruleBased, genCalls, DEMO_DATA, now, call, start,
                 branches>>

InitNLQ ==
  /\ GRAPH_API_KEY = FALSE
  /\ DEMO_MODE = FALSE
  /\ ANTHROPIC_API_KEY \in BOOLEAN
  /\ DEMO_DATA = AaveInitialDemoData
  /\ anthropicClient = FALSE
  /\ now = 0
  /\ pc = "idle"
  /\ call = NoCall
  /\ start = 0
  /\ branches = <<>>
  /\ result = NoResult
  /\ ruleBased = NoResult
  /\ response = NoResponse
  /\ genCalls = 0
  /\ store = EmptyRec
  /\ nextCalls = EmptyRec

NextNLQ ==
  \/ pc = "idle" /\ \E query \in Queries : ParseNLQ(query)
  \/ pc = "stage2" /\ \E resp \in Stage2Responses : Stage2Settle(resp)
  \/ Return

SpecNLQ == InitNLQ /\ [][NextNLQ]_vars

(* ---- the pipeline (processNaturalLanguageQuery) ------------------------- *)

\* the sentences the pipeline is asked; a query is a sentence with any of its
\* words left out
Sentences ==
  {<<"top", "5", "uniswap", "pools", "arbitrum", "volume">>,
   <<"Aave", "rates", "ethereum">>,
   <<"hello">>}

\* the words of s at the positions of I, in their order
Pick(s, I) == [k \in 1..Cardinality(I) |-> s[NthOf(I, k)]]

PipelineQueries == UNION {{Pick(s, I) : I \in SUBSET (1..Len(s))} : s \in Sentences}

\* what the generative service answers in the pipeline: a failure, or a text of
\* at most one segment
PipelineResponses == {r \in Stage2Responses : r.kind = "text" => Len(r.text) <= 1}

\* return executeQuery(parsed): the second statement of
\* processNaturalLanguageQuery, run when parseNaturalLanguageQuery has returned
Dispatch ==
  LET parsed == result.out
  IN  /\ call.op = "parseNaturalLanguageQuery"
      /\ BeginAt("done",
                 [op |-> "executeQuery", parsed |-> parsed, merge |-> ExecPlan(parsed).merge,
                  via |-> ExecPlan(parsed).via],
                 ExecPlan(parsed).calls)

(* ---- the rate limiter (middleware/rateLimit.ts) ------------------------- *)

\* Time is counted in ticks of half a second.
Second == 2

\* windowMs and max of the options, scaled down
WindowMs == 2
RateMax == 2

\* the clock of the limiter stops at MaxTime and a key is not followed beyond
\* MaxOver blocked requests in one window
MaxTime == 5
MaxOver == 2

\* keyFn(c): the x-forwarded-for header, the x-real-ip header or "anonymous"
Keys == {"10.0.0.1", "anonymous"}

\* Math.ceil(a / b) for a >= 0
CeilDiv(a, b) == (a + b - 1) \div b

\* Expired with the bug of ending the window at resetAt already
Expired_AtResetAt(entry, t) == entry.resetAt <= t

\* entry.resetAt < now, in the handler
Expired(entry, t) == entry.resetAt < t

\* let entry = store.get(key), undefined as the record with no field
StoreGet(st, key) == IF key \in DOMAIN st THEN st[key] ELSE EmptyRec

\* the entry of the handler after "if (!entry || entry.resetAt < now) {...}"
EntryAt(st, key, t) ==
  IF StoreGet(st, key) = EmptyRec \/ Expired(st[key], t)
  THEN [count |-> 0, resetAt |-> t + WindowMs]
  ELSE st[key]

\* entry.count++
Counted(entry) == [entry EXCEPT !.count = @ + 1]

\* Exceeded with the bug of letting one more request through
Exceeded_OneMore(entry) == entry.count > RateMax + 1

\* entry.count > max
Exceeded(entry) == entry.count > RateMax

\* Retry-After and retryAfterSeconds
RetryAfter(entry, t) == CeilDiv(entry.resetAt - t, Second)

\* the X-RateLimit-* headers, and Retry-After on a blocked request
RateLimitHeaders(entry, t) ==
  [limit |-> RateMax,
   remaining |-> Max(0, RateMax - entry.count),
   reset |-> entry.resetAt \div Second]
    @@ (IF Exceeded(entry) THEN "retryAfter" :> RetryAfter(entry, t) ELSE EmptyRec)

\* what the middleware does with a request of key at time t: the headers, and
\* either the 429 answer or the call of next()
RateLimitResponse(st, key, t) ==
  LET entry == Counted(EntryAt(st, key, t))
  IN  IF Exceeded(entry)
      THEN [passed |-> FALSE, headers |-> RateLimitHeaders(entry, t), http |-> 429,
            body |-> [success |-> FALSE, error |-> [text |-> "Rate limit exceeded"],
                      retryAfterSeconds |-> RetryAfter(entry, t)]]
      ELSE [passed |-> TRUE, headers |-> RateLimitHeaders(entry, t)]

\* the store after the request
StoreAfterRequest(st, key, t) == (key :> Counted(EntryAt(st, key, t))) @@ st

\* one more call of next() for the window of the entry
NextCalled(calls, key, entry) ==
  LET w == <<key, entry.resetAt>>
  IN  (w :> (IF w \in DOMAIN calls THEN calls[w] + 1 ELSE 1)) @@ calls

\* the middleware handles a request of key; the handlers behind next() do not
\* touch the store
RateLimit(key) ==
  LET entry == Counted(EntryAt(store, key, now))
      resp == RateLimitResponse(store, key, now)
  IN  /\ pc = "idle"
      /\ entry.count <= RateMax + MaxOver
      /\ pc' = "done"
      /\ call' = [op |-> "rateLimit", key |-> key, at |-> now,
                   entry |-> StoreGet(store, key)]
      /\ store' = StoreAfterRequest(store, key, now)
      /\ nextCalls' = IF resp.passed THEN NextCalled(nextCalls, key, entry) ELSE nextCalls
      /\ result' = [status |-> "fulfilled", out |-> resp]
      /\ UNCHANGED <<envVars, nlqVars, DEMO_DATA, now, start, branches>>

\* SweepExpired with the bug of deleting an entry at resetAt already
SweepExpired_AtResetAt(entry, t) == entry.resetAt <= t

\* entry.resetAt < now, in the cleanup
SweepExpired(entry, t) == entry.resetAt < t

\* the store after the cleanup ran at time t
SweepStore(st, t) ==
  [k \in {k \in DOMAIN st : ~SweepExpired(st[k], t)} |-> st[k]]

\* the setInterval callback; the interval is far longer than a window, and the
\* callback is taken to be able to run between any two requests
Sweep ==
  /\ pc = "idle"
  /\ store' = SweepStore(store, now)
  /\ UNCHANGED <<envVars, nlqVars, DEMO_DATA, now, pc, call, start, branches, result,
                 nextCalls>>

\* time passes between two requests
Elapse ==
  /\ pc = "idle"
  /\ now < MaxTime
  /\ now' = now + 1
  /\ UNCHANGED <<envVars, nlqVars, limiterVars, DEMO_DATA, pc, call, start, branches,
                 result>>

InitRateLimit ==
  /\ GRAPH_API_KEY = FALSE
  /\ DEMO_MODE = FALSE
  /\ ANTHROPIC_API_KEY = FALSE
  /\ DEMO_DATA = AaveInitialDemoData
  /\ anthropicClient = FALSE
  /\ now = 0
  /\ pc = "idle"
  /\ call = NoCall
  /\ start = 0
  /\ branches = <<>>
  /\ result = NoResult
  /\ ruleBased = NoResult
  /\ response = NoResponse
  /\ genCalls = 0
  /\ store = EmptyRec
  /\ nextCalls = EmptyRec

NextRateLimit ==
  \/ pc = "idle" /\ \E key \in Keys : RateLimit(key)
  \/ Sweep
  \/ Elapse
  \/ Return

SpecRateLimit == InitRateLimit /\ [][NextRateLimit]_vars

(* ---- rayToAPY on its own ------------------------------------------------ *)

RayVals ==
  {0, 4, 5, 6, 14, 15, 16, 25, 35, 45, 99995, 123455, 210004, 499999, 500000,
   500001, 650005, 650015, 9999999, 10000000}

RayStrings ==
  {RayStr(f, v) : f \in {"digits", "padded", "hex", "fraction", "exponent"},
                  v \in RayVals}
    \cup {RayStr(f, 0) : f \in {"text", "empty", "undefined"}}

\* rayToAPY(ray), called on one field of a reserve
ApplyRayToAPY(ray) ==
  /\ pc = "idle"
  /\ pc' = "done"
  /\ call' = [op |-> "rayToAPY", ray |-> ray]
  /\ result' = [status |-> "fulfilled", out |-> rayToAPY(ray)]
  /\ UNCHANGED <<envVars, limiterVars, nlqVars, DEMO_DATA, now, start, branches>>

NextRay ==
  \/ pc = "idle" /\ \E ray \in RayStrings : ApplyRayToAPY(ray)
  \/ Return

SpecRay == Init /\ [][NextRay]_vars

(* ---- the route (routes/query.ts, GET /query) ---------------------------- *)

\* the q parameter of a request: missing, or a text made of the words of a
\* query, with or without blanks around it (pad), with or without a "%" that
\* does not start an escape sequence (malformed)
RouteInputs ==
  {[kind |-> "missing"]}
    \cup {[kind |-> "text", pad |-> pd, words |-> w, malformed |-> m] :
            pd \in BOOLEAN, w \in PipelineQueries, m \in BOOLEAN}

\* String.prototype.trim: the blanks around the text are removed
Trim(q) == [q EXCEPT !.pad = FALSE]

\* !q || q.trim().length === 0
Blank(q) ==
  IF q.kind = "missing" THEN TRUE
  ELSE Trim(q).words = <<>> /\ ~Trim(q).malformed

\* decodeURIComponent throws URIError on a "%" that starts no escape sequence
DecodeThrows(q) == q.malformed

\* decodeURIComponent(q.trim()) for a text it accepts: the words of the
\* vocabulary hold no escape sequence and decode to themselves
DecodeURIComponent(q) == q.words

MissingQueryBody ==
  [success |-> FALSE, error |-> [text |-> "Missing required query parameter"]]

\* the body of app.onError
InternalServerErrorBody ==
  [success |-> FALSE, error |-> [text |-> "Internal server error"]]

\* the body of the catch block of the route
InternalQueryErrorBody(msg) ==
  [success |-> FALSE, error |-> [text |-> "Internal query error", cause |-> msg],
   executionTimeMs |-> 0]

\* StatusOf with the bug of answering 200 for every envelope
StatusOf_Always200(envelope) == 200

\* const status = result.success ? 200 : 422
StatusOf(envelope) == IF envelope.success THEN 200 ELSE 422

\* the route answers at once, without calling processNaturalLanguageQuery
RouteAnswer(q, http, body) ==
  /\ pc = "idle"
  /\ pc' = "done"
  /\ call' = [op |-> "GET /query", q |-> q]
  /\ result' = [status |-> "fulfilled", out |-> [http |-> http, body |-> body]]
  /\ UNCHANGED <<envVars, limiterVars, nlqVars, DEMO_DATA, now, start, branches>>

\* GET /query without q, or with a blank q: 400
RouteBadRequest(q) ==
  /\ Blank(q)
  /\ RouteAnswer(q, 400, MissingQueryBody)

\* GET /query with a q decodeURIComponent rejects: the exception is thrown
\* before the try block and app.onError answers 500
RouteDecodeError(q) ==
  /\ ~Blank(q)
  /\ DecodeThrows(Trim(q))
  /\ RouteAnswer(q, 500, InternalServerErrorBody)

\* GET /query with a q that decodes: processNaturalLanguageQuery(decodedQuery)
\* is called, which starts with parseNaturalLanguageQuery
RouteQuery(q) ==
  /\ ~Blank(q)
  /\ ~DecodeThrows(Trim(q))
  /\ ParseNLQ(DecodeURIComponent(Trim(q)))

\* processNaturalLanguageQuery has settled and the route answers
Respond ==
  /\ pc = "done"
  /\ call.op = "executeQuery"
  /\ ruleBased # NoResult
  /\ call' = [op |-> "GET /query", query |-> ruleBased.rawIntent, envelope |-> result]
  /\ result' = [status |-> "fulfilled",
                out |-> IF result.status = "fulfilled"
                        THEN [http |-> StatusOf(result.out), body |-> result.out]
                        ELSE [http |-> 500, body |-> InternalQueryErrorBody(result.out)]]
  /\ UNCHANGED <<envVars, limiterVars, nlqVars, DEMO_DATA, now, start, branches, pc>>

\* the caller of processNaturalLanguageQuery, or the client of the route, has
\* its answer; the intent of parseNaturalLanguageQuery goes to executeQuery
TakeAnswer ==
  /\ call.op # "parseNaturalLanguageQuery"
  /\ Return

InitPipeline ==
  /\ GRAPH_API_KEY \in BOOLEAN
  /\ DEMO_MODE = FALSE
  /\ ANTHROPIC_API_KEY \in BOOLEAN
  /\ DEMO_DATA = AaveInitialDemoData
  /\ anthropicClient = FALSE
  /\ now = 0
  /\ pc = "idle"
  /\ call = NoCall
  /\ start = 0
  /\ branches = <<>>
  /\ result = NoResult
  /\ ruleBased = NoResult
  /\ response = NoResponse
  /\ genCalls = 0
  /\ store = EmptyRec
  /\ nextCalls = EmptyRec

NextPipeline ==
  \/ pc = "idle" /\ \E q \in RouteInputs : RouteBadRequest(q)
  \/ pc = "idle" /\ \E q \in RouteInputs : RouteDecodeError(q)
  \/ pc = "idle" /\ \E q \in RouteInputs : RouteQuery(q)
  \/ pc = "stage2" /\ \E resp \in PipelineResponses : Stage2Settle(resp)
  \/ Dispatch
  \/ Respond
  \/ \E i \in 1..3 : LiveSettle(i)
  \/ \E i \in 1..3 : FactorySettle(i)
  \/ TakeAnswer

SpecPipeline == InitPipeline /\ [][NextPipeline]_vars

\* the queries and the answers of the generative service for the runs of the
\* pipeline under fairness
LiveQueries == {<<"Aave", "rates", "ethereum">>, <<"uniswap", "arbitrum">>, <<"hello">>}

LiveResponses ==
  {r \in PipelineResponses :
     r.kind = "text" => (Len(r.text) = 1 /\ r.text[1].seg = "object")}

\* processNaturalLanguageQuery(query)
ProcessNLQ(query) == ParseNLQ(query)

\* the generative service settles the call it was sent
ServiceSettles == \E resp \in LiveResponses : Stage2Settle(resp)

\* a data backend settles a query it was sent
BackendSettles == \E i \in 1..3 : LiveSettle(i) \/ FactorySettle(i)

NextPipelineLive ==
  \/ pc = "idle" /\ \E query \in LiveQueries : ProcessNLQ(query)
  \/ pc = "stage2" /\ ServiceSettles
  \/ Dispatch
  \/ BackendSettles
  \/ TakeAnswer

\* The pipeline under the assumption that every external call settles; the
\* step from parseNaturalLanguageQuery to executeQuery is the program's own.
SpecPipelineLive ==
  /\ InitPipeline
  /\ [][NextPipelineLive]_vars
  /\ WF_vars(ServiceSettles)
  /\ WF_vars(BackendSettles)
  /\ WF_vars(Dispatch)

(* ---- properties --------------------------------------------------------- *)

ExecDone == pc = "done" /\ call.op = "executeQuery"
ParseDone == pc = "done" /\ call.op = "parseNaturalLanguageQuery"
AccessorDone == pc = "done" /\ call.op \in Accessors

HasDemoMarker(v) == "_demo" \in DOMAIN v /\ v._demo = TRUE

\* C1: in synthetic mode getAaveTVL(chain) returns the same totalTVLUSD,
\* reserveCount and topReserves (in the same order) as a first call in a fresh
\* process does, whatever accessor calls came before it.
C1_TVLIndependentOfPriorCalls ==
  (AccessorDone /\ call.op = "getAaveTVL" /\ isDemo /\ result.status = "fulfilled") =>
    LET fresh == getDemoTVL(AaveInitialDemoData, branches[1].chain)
    IN  /\ result.out.totalTVLUSD = fresh.totalTVLUSD
        /\ result.out.reserveCount = fresh.reserveCount
        /\ result.out.topReserves = fresh.topReserves

\* C2 as stated: an intent with action unknown or protocol null gets the
\* unresolved-protocol envelope and no accessor is invoked.
C2_UnknownActionShortCircuits ==
  (ExecDone /\ (call.parsed.action = "unknown" \/ call.parsed.protocol = NULL)) =>
    /\ branches = <<>>
    /\ result.out.success = FALSE
    /\ result.out.error = CouldNotDetermineProtocol

\* C2 amended: an intent with protocol null gets the unresolved-protocol failed
\* envelope at once and no accessor is invoked for it.
C2_NullProtocolShortCircuits ==
  (call.op = "executeQuery" /\ call.parsed.protocol = NULL) =>
    /\ pc = "done"
    /\ branches = <<>>
    /\ call.via = "none"
    /\ result.status = "fulfilled"
    /\ result.out.success = FALSE
    /\ result.out.error = CouldNotDetermineProtocol
    /\ "data" \notin DOMAIN result.out

C2_Witness ==
  /\ ExecDone
  /\ call.parsed.protocol = NULL
  /\ call.parsed.action = "tvl"
  /\ call.parsed.chain = "base"
  /\ result.out.error = CouldNotDetermineProtocol

\* C3: for an intent whose protocol is one of the enumeration executeQuery
\* invokes an accessor of that protocol, and the could-not-determine-protocol
\* envelope is returned only when protocol is null.
C3_EveryProtocolDispatched ==
  ExecDone =>
    /\ call.parsed.protocol \in Protocol =>
         /\ branches # <<>>
         /\ \A i \in 1..Len(branches) : ProtocolOf(branches[i].fn) = call.parsed.protocol
    /\ (result.out.success = FALSE /\ result.out.error = CouldNotDetermineProtocol) =>
         call.parsed.protocol = NULL

\* C4: when parseWithRules resolves a protocol and an action other than
\* unknown, parseNaturalLanguageQuery returns exactly that result and the
\* generative service is not called during the request.
C4_Stage1ResolvedSkipsStage2 ==
  call.op = "parseNaturalLanguageQuery" =>
    LET rb == parseWithRules(call.query)
    IN  (rb.protocol # NULL /\ rb.action # "unknown") =>
          /\ pc = "done"
          /\ genCalls = 0
          /\ result = [status |-> "fulfilled", out |-> rb]

C4_Witness ==
  /\ ParseDone
  /\ ANTHROPIC_API_KEY
  /\ call.query = <<"Aave", "tvl">>
  /\ genCalls = 0
  /\ result.out.protocol = "aave-v3"
  /\ result.out.action = "tvl"

\* C5: parseNaturalLanguageQuery never rejects, and whenever Stage 2 fails
\* (missing credential, service error, no text content, no JSON in the text,
\* JSON that does not parse) it returns the parseWithRules result of the query.
C5_Stage2FailureFallsBack ==
  ParseDone =>
    /\ result.status = "fulfilled"
    /\ LET rb == parseWithRules(call.query)
           ambiguous == rb.protocol = NULL \/ rb.action = "unknown"
           failed == response.kind = "none" \/ ~Stage2Succeeds(response)
       IN  (ambiguous /\ failed) => result.out = rb

C5_Witness ==
  /\ ParseDone
  /\ call.query = <<"Aave", "base">>
  /\ response.kind = "text"
  /\ Len(response.text) = 2
  /\ response.text[1].seg = "object"
  /\ response.text[2].seg = "object"
  /\ result.out.protocol = "aave-v3"
  /\ result.out.chain = "base"
  /\ result.out.action = "unknown"

C7_EnvelopeShape ==
  ExecDone =>
    /\ result.out.success = FALSE =>
         /\ "data" \notin DOMAIN result.out
         /\ "error" \in DOMAIN result.out
         /\ "text" \in DOMAIN result.out.error
    /\ result.out.success = TRUE =>
         /\ "error" \notin DOMAIN result.out
         /\ "data" \in DOMAIN result.out

C7_Witness ==
  /\ ExecDone
  /\ result.out.success = FALSE
  /\ call.via = "getUniswapTopPools"
  /\ "data" \notin DOMAIN result.out

\* C8: an intent whose chain is present but not supported by its protocol
\* (aave-v3 with ethereum, uniswap-v3 with optimism or ethereum) gets a failed
\* envelope whose error names the unsupported chain, never success true.
C8_UnsupportedChainFails ==
  (/\ ExecDone
   /\ call.parsed.protocol \in {"aave-v3", "uniswap-v3"}
   /\ call.parsed.chain # NULL
   /\ ~Includes(IF call.parsed.protocol = "aave-v3" THEN AAVE_SUPPORTED_CHAINS
                ELSE UNISWAP_SUPPORTED_CHAINS, call.parsed.chain)) =>
    /\ result.out.success = FALSE
    /\ result.out.error.text = "not supported on chain"
    /\ result.out.error.chain = call.parsed.chain

\* C9: a failed live call of a Uniswap or Morpho accessor never rejects the
\* accessor, which returns the synthetic dataset with the demo marker; a
\* failed live call of an Aave accessor rejects it.
C9_FallbackOnLiveFailure ==
  (AccessorDone /\ branches[1].cause # "none") =>
    IF ProtocolOf(call.op) = "aave-v3"
    THEN result.status = "rejected"
    ELSE /\ result.status = "fulfilled"
         /\ HasDemoMarker(result.out)

\* C10: when the source of an accessor is not live (no gateway credential for
\* the subgraph protocols) or DEMO_MODE is set, a call with a supported chain
\* returns the synthetic dataset of the chain and the value carries _demo = true.
C10_SyntheticIsMarked ==
  (/\ AccessorDone
   /\ Includes(SupportedChainsOf(call.op), branches[1].chain)
   /\ (DEMO_MODE \/ (ProtocolOf(call.op) # "morpho-blue" /\ ~GRAPH_API_KEY))) =>
    /\ result.status = "fulfilled"
    /\ HasDemoMarker(result.out)

AllChainsOps == {"getAaveTVLAllChains", "getUniswapTVLAllChains", "getMorphoTVLAllChains"}

\* the single-chain accessor an all-chains fan-out maps over its chains
AccessorOfAllChains(op) ==
  CASE op = "getAaveTVLAllChains" -> "getAaveTVL"
    [] op = "getUniswapTVLAllChains" -> "getUniswapTVL"
    [] op = "getMorphoTVLAllChains" -> "getMorphoTVL"

\* the positions of the branches that fulfilled
FulfilledIdx(brs) == {i \in 1..Len(brs) : brs[i].status = "fulfilled"}

\* C11: an all-chains TVL fan-out makes one call per chain of the protocol's
\* supported-chain list, in the order of the list; whichever of them fail, and
\* in whatever order they settle, it fulfils with exactly the records of the
\* chains that succeeded, in the order of the list.
C11_FanOutKeepsSucceedingChains ==
  (pc = "done" /\ call.op \in AllChainsOps) =>
    LET chains == SupportedChainsOf(AccessorOfAllChains(call.op))
        ok == FulfilledIdx(branches)
    IN  /\ Len(branches) = Len(chains)
        /\ \A i \in 1..Len(chains) :
             /\ branches[i].fn = AccessorOfAllChains(call.op)
             /\ branches[i].chain = chains[i]
        /\ result.status = "fulfilled"
        /\ Len(result.out.items) = Cardinality(ok)
        /\ \A k \in 1..Cardinality(ok) :
             /\ result.out.items[k] = branches[NthOf(ok, k)].out
             /\ result.out.items[k].chain = chains[NthOf(ok, k)]

C11_Witness ==
  /\ pc = "done"
  /\ call.op = "getAaveTVLAllChains"
  /\ branches[1].status = "fulfilled"
  /\ branches[2].status = "rejected"
  /\ branches[3].status = "fulfilled"
  /\ Len(result.out.items) = 2
  /\ result.out.items[2].chain = "optimism"

\* a call that joins several branches: an all-chains fan-out, or executeQuery
\* on a branch that fans out
IsFanOut == "merge" \in DOMAIN call /\ call.merge \in {"list", "map"}

\* C12: a multi-chain fan-out has produced its merged result (and executeQuery
\* its envelope) only when every branch has fulfilled or rejected; while a
\* branch is pending the call is still waiting, whether or not another branch
\* has rejected.
C12_FanOutWaitsForEveryBranch ==
  IsFanOut =>
    /\ (pc = "done" \/ result # NoResult) =>
         \A i \in 1..Len(branches) : branches[i].status \in {"fulfilled", "rejected"}
    /\ (\E i \in 1..Len(branches) : branches[i].status \in {"pending", "pending2"}) =>
         /\ pc = "waiting"
         /\ result = NoResult

C12_Witness ==
  /\ IsFanOut
  /\ pc = "waiting"
  /\ call.op = "executeQuery"
  /\ call.via = "getAaveLendingRates"
  /\ branches[1].status = "rejected"
  /\ branches[2].status = "pending"
  /\ branches[3].status = "fulfilled"

\* executeQuery has returned to processNaturalLanguageQuery
PipelineDone == ExecDone /\ ruleBased # NoResult

\* the query the pipeline was asked, lower-cased
PipelineQuery == LowerCased(ruleBased.rawIntent)

\* the N of the first "top N" of a query
TopN(q) == parseInt(q[(CHOOSE i \in TopMatches(q) : \A j \in TopMatches(q) : i <= j) + 1])

\* the chain a query names
ChainNamed(q) == IF Test(ReBase, q) THEN "base" ELSE "arbitrum"

\* a Uniswap query for the top N on a supported chain by volume
AsksTopNByVolume(q) ==
  /\ Test(ReUniswap, q) /\ ~Test(ReAave, q)
  /\ Test(ReBase, q) \/ Test(ReArbitrum, q)
  /\ TopMatches(q) # {}
  /\ Test(ReVolume, q)

SortedDescBy(s, field) == \A i \in 1..(Len(s) - 1) : s[i][field] >= s[i + 1][field]

\* an array of at most n pools in descending order of field
IsTopPools(data, n, field) ==
  /\ "items" \in DOMAIN data
  /\ Len(data.items) <= n
  /\ SortedDescBy(data.items, field)

WordsOf(q) == {q[i] : i \in 1..Len(q)}

AmbiguousAndStage2Failed ==
  /\ ruleBased.protocol = NULL \/ ruleBased.action = "unknown"
  /\ response.kind = "none" \/ ~Stage2Succeeds(response)

\* C15 as stated: when Stage 1 is ambiguous and Stage 2 fails the resolved
\* intent has action unknown and protocol null and the pipeline returns the
\* guided failed envelope, never a successful one.
C15_AmbiguityGivesGuidedFailure ==
  (PipelineDone /\ AmbiguousAndStage2Failed) =>
    /\ call.parsed.action = "unknown"
    /\ call.parsed.protocol = NULL
    /\ result.out.success = FALSE
    /\ result.out.error = CouldNotDetermineProtocol

\* C15 amended: when Stage 1 is ambiguous and Stage 2 fails the resolved intent
\* is the Stage 1 result; the pipeline returns the guided failed envelope when
\* its protocol is null, and otherwise runs the TVL query of its protocol,
\* which in synthetic mode gives a successful envelope.
C15_AmbiguityKeepsStage1Result ==
  (PipelineDone /\ AmbiguousAndStage2Failed) =>
    /\ call.parsed = ruleBased
    /\ ruleBased.protocol = NULL =>
         /\ branches = <<>>
         /\ result.out.success = FALSE
         /\ result.out.error = CouldNotDetermineProtocol
    /\ ruleBased.protocol # NULL =>
         /\ branches # <<>>
         /\ \A i \in 1..Len(branches) :
              branches[i].fn = IF ruleBased.protocol = "aave-v3" THEN "getAaveTVL"
                               ELSE "getUniswapTVL"
         /\ isDemo => result.out.success = TRUE

C15_Witness ==
  /\ PipelineDone
  /\ ruleBased.rawIntent = <<"uniswap">>
  /\ response.kind = "error"
  /\ call.parsed.action = "unknown"
  /\ call.parsed.protocol = "uniswap-v3"
  /\ result.out.success = TRUE

\* executeQuery is running or has returned for a Uniswap pools or volume
\* intent without a chain
UniswapPoolsNoChain ==
  /\ call.op = "executeQuery"
  /\ call.parsed.protocol = "uniswap-v3"
  /\ call.parsed.action \in {"pools", "volume"}
  /\ call.parsed.chain = NULL

AaveRatesNoChain ==
  /\ call.op = "executeQuery"
  /\ call.parsed.protocol = "aave-v3"
  /\ call.parsed.action = "rates"
  /\ call.parsed.chain = NULL

\* C17: for an aave-v3 intent with action rates and no chain, executeQuery has
\* one getAaveLendingRates call in flight for every chain of Aave's
\* supported-chain list and for no other chain, all of them together; data is
\* the list of the fulfilled results in the order of that list, the rejected
\* chains are left out and the envelope has success true.
C17_RatesFanOutOverSupportedChains ==
  AaveRatesNoChain =>
    /\ Len(branches) = Len(AAVE_SUPPORTED_CHAINS)
    /\ \A i \in 1..Len(AAVE_SUPPORTED_CHAINS) :
         /\ branches[i].fn = "getAaveLendingRates"
         /\ branches[i].chain = AAVE_SUPPORTED_CHAINS[i]
         /\ branches[i].limit = LimitOf(call.parsed)
    /\ pc = "done" =>
         LET ok == FulfilledIdx(branches)
         IN  /\ result.status = "fulfilled"
             /\ result.out.success = TRUE
             /\ "error" \notin DOMAIN result.out
             /\ Len(result.out.data.items) = Cardinality(ok)
             /\ \A k \in 1..Cardinality(ok) :
                  /\ result.out.data.items[k] = branches[NthOf(ok, k)].out
                  /\ result.out.data.items[k].chain = AAVE_SUPPORTED_CHAINS[NthOf(ok, k)]

C17_Witness ==
  /\ AaveRatesNoChain
  /\ pc = "done"
  /\ branches[1].status = "rejected"
  /\ branches[2].status = "fulfilled"
  /\ branches[3].status = "rejected"
  /\ result.out.success = TRUE
  /\ Len(result.out.data.items) = 1
  /\ result.out.data.items[1].chain = "arbitrum"

\* the actions a protocol has a query of its own for
OwnActions(protocol) ==
  CASE protocol = "aave-v3" -> {"tvl", "rates"}
    [] protocol = "uniswap-v3" -> {"tvl", "pools", "volume"}
    [] protocol = "morpho-blue" -> {"tvl", "rates", "vaults"}

\* the single-chain TVL accessor of a protocol
TVLAccessorOf(protocol) ==
  CASE protocol = "aave-v3" -> "getAaveTVL"
    [] protocol = "uniswap-v3" -> "getUniswapTVL"
    [] protocol = "morpho-blue" -> "getMorphoTVL"

\* the calls in flight are exactly the TVL query of the protocol: one call for
\* the chain when it is a supported one, one call per supported chain otherwise
RunsTVLQuery(protocol, chain) ==
  LET fn == TVLAccessorOf(protocol)
      chains == IF chain # NULL /\ Includes(SupportedChainsOf(fn), chain)
                THEN <<chain>> ELSE SupportedChainsOf(fn)
  IN  /\ Len(branches) = Len(chains)
      /\ \A i \in 1..Len(chains) :
           branches[i].fn = fn /\ branches[i].chain = chains[i]

\* C18: for an intent with a protocol of the enumeration and an action that is
\* not one of the protocol's own, executeQuery performs exactly the TVL query
\* of the protocol: single-chain when a supported chain is given, all-chains
\* otherwise.
C18_OtherActionsRunTVL ==
  (/\ call.op = "executeQuery"
   /\ call.parsed.protocol \in Protocol
   /\ call.parsed.action \notin OwnActions(call.parsed.protocol)) =>
    RunsTVLQuery(call.parsed.protocol, call.parsed.chain)

\* the positions of the well-formed JSON objects of a text
ObjectsIn(text) == {i \in 1..Len(text) : text[i].seg = "object"}

\* C19: when the text of the Stage 2 response contains a well-formed JSON
\* object, the intent is built from the first such object, whatever follows it
\* in the text (prose, braces or a second object).
C19_FirstObjectIsExtracted ==
  (ParseDone /\ response.kind = "text" /\ ObjectsIn(response.text) # {}) =>
    result.out = Stage2Intent(response.text[NthOf(ObjectsIn(response.text), 1)].obj,
                              call.query)

\* the intent came from Stage 2
FromStage2 == response.kind = "text" /\ Stage2Succeeds(response)

\* C20: every intent parseNaturalLanguageQuery returns has a limit that is a
\* positive integer; the limit is 10 when the intent comes from Stage 1 and
\* the query has no "top <number>", and when it comes from Stage 2 and the
\* object has no limit.
C20_LimitIsPositive ==
  ParseDone =>
    /\ "limit" \in DOMAIN result.out
    /\ result.out.limit \in Nat \ {0}
    /\ (~FromStage2 /\ TopMatches(LowerCased(call.query)) = {}) => result.out.limit = 10
    /\ (FromStage2 /\ "limit" \notin DOMAIN JsonMatch(response.text)[1].obj) =>
         result.out.limit = 10

TopNAccessors ==
  {"getAaveLendingRates", "getUniswapTopPools", "getMorphoMarketRates", "getMorphoTopVaults"}

\* the list of records in the value of a top-N accessor
TopNList(fn, out) ==
  CASE fn = "getAaveLendingRates" -> out.rates
    [] fn = "getUniswapTopPools" -> out.items
    [] fn = "getMorphoMarketRates" -> out.markets
    [] fn = "getMorphoTopVaults" -> out.vaults

\* the field a top-N accessor is asked to order by
TopNKey(fn, orderBy) ==
  CASE fn = "getAaveLendingRates" -> "supplyAPY"
    [] fn = "getUniswapTopPools" ->
         (IF orderBy = "volume" THEN "volume24hUSD"
          ELSE IF orderBy = "fees" THEN "fees24hUSD" ELSE "tvlUSD")
    [] fn = "getMorphoMarketRates" ->
         (IF orderBy = "borrowAPY" THEN "borrowAPY"
          ELSE IF orderBy = "tvl" THEN "tvlUSD" ELSE "supplyAPY")
    [] fn = "getMorphoTopVaults" -> "tvlUSD"

\* C21: the value of a top-N accessor has at most limit records, in descending
\* order of its key (supply yield for rates, the requested key for pools and
\* Morpho market rates, TVL for vaults), on the synthetic path, on the live
\* path for any list of the backend, and on the fallback path.
C21_TopNSortedAndLimited ==
  (AccessorDone /\ call.op \in TopNAccessors /\ result.status = "fulfilled") =>
    LET list == TopNList(call.op, result.out)
    IN  /\ Len(list) <= branches[1].limit
        /\ SortedDescBy(list, TopNKey(call.op, branches[1].orderBy))

\* the route has answered
RouteDone == pc = "done" /\ call.op = "GET /query"

\* C22: GET /query answers 400 for a missing or blank q without calling the
\* resolver or the dispatcher; for any other q its status is 200 exactly when
\* an envelope with success true was returned and 422 exactly when an envelope
\* with success false was returned, so the unresolvable query "hello" gets 422.
C22_StatusMapping ==
  RouteDone =>
    LET blank == "q" \in DOMAIN call /\ Blank(call.q)
        returned == "envelope" \in DOMAIN call /\ call.envelope.status = "fulfilled"
    IN  /\ blank =>
             /\ result.out.http = 400
             /\ ruleBased = NoResult /\ genCalls = 0 /\ branches = <<>>
        /\ ~blank =>
             /\ result.out.http = 200 <=> (returned /\ call.envelope.out.success = TRUE)
             /\ result.out.http = 422 <=> (returned /\ call.envelope.out.success = FALSE)
        /\ ("query" \in DOMAIN call /\ call.query = <<"hello">>
               /\ AmbiguousAndStage2Failed) => result.out.http = 422

C22_Witness ==
  /\ RouteDone
  /\ "query" \in DOMAIN call
  /\ call.query = <<"hello">>
  /\ response.kind = "error"
  /\ call.envelope.out.success = FALSE
  /\ result.out.http = 422

RayDone == pc = "done" /\ call.op = "rayToAPY"

\* C23: rayToAPY gives r / 10^27 * 100 rounded to four decimals (one of the
\* nearest values of four decimals; 5 * 10^25 gives 5.0000) for a ray string
\* BigInt accepts, and 0 for every string it rejects.
C23_RayToAPY ==
  RayDone =>
    LET r == call.ray
        apy == result.out
    IN  /\ BigIntThrows(r) => apy = 0
        /\ ~BigIntThrows(r) =>
             /\ 2 * (apy * RayStep - BigIntOf(r)) <= RayStep
             /\ 2 * (BigIntOf(r) - apy * RayStep) <= RayStep
        /\ r = RayStr("digits", 500000) => apy = 50000

C23_Witness ==
  /\ RayDone
  /\ call.ray = RayStr("digits", 500001)
  /\ result.out = 50000

\* the fields of an intent that have a default
DefaultedFields == {"protocol", "chain", "action", "limit", "rawIntent"}

\* C24: when Stage 2 succeeds, every field the object omits or nulls has its
\* default in the intent (protocol null, chain null, action unknown, limit 10,
\* rawIntent the original query) and every field it supplies has its value.
C24_Stage2Defaults ==
  FromStage2 =>
    LET obj == JsonMatch(response.text)[1].obj
        supplied == (DOMAIN obj \ {"nulled"}) \ Nulled(obj)
    IN  /\ \A f \in DefaultedFields \cap supplied : result.out[f] = obj[f]
        /\ "protocol" \notin supplied => result.out.protocol = NULL
        /\ "chain" \notin supplied => result.out.chain = NULL
        /\ "action" \notin supplied => result.out.action = "unknown"
        /\ "limit" \notin supplied => result.out.limit = 10
        /\ "rawIntent" \notin supplied => result.out.rawIntent = call.query

C24_Witness ==
  /\ FromStage2
  /\ JsonMatch(response.text)[1].obj = [protocol |-> "aave-v3", action |-> "rates"]
  /\ call.query = <<"base", "top">>
  /\ result.out = [protocol |-> "aave-v3", chain |-> NULL, action |-> "rates",
                    limit |-> 10, rawIntent |-> <<"base", "top">>]

\* the middleware has handled a request
RateDone == pc = "done" /\ call.op = "rateLimit"

\* C25: for every key and window at most max requests are passed to the next
\* handler, and a request that comes in the window after max requests were
\* passed is answered 429 and does not reach the next handler.
C25_AtMostMaxPerWindow ==
  /\ \A w \in DOMAIN nextCalls : nextCalls[w] <= RateMax
  /\ RateDone =>
       LET w == <<call.key, call.entry.resetAt>>
       IN  (/\ call.entry # EmptyRec
            /\ call.at <= call.entry.resetAt
            /\ w \in DOMAIN nextCalls
            /\ nextCalls[w] = RateMax
            /\ call.entry.count >= RateMax)
             => (~result.out.passed /\ result.out.http = 429)

C25_Witness ==
  /\ RateDone
  /\ ~result.out.passed
  /\ result.out.http = 429
  /\ call.at < store[call.key].resetAt
  /\ nextCalls[<<call.key, store[call.key].resetAt>>] = RateMax

\* C27: a request of a key that comes strictly after resetAt of its entry,
\* blocked before or not, is passed on and starts a new window with count 1
\* and resetAt = now + windowMs; a request up to resetAt leaves resetAt as it
\* is, so blocked requests never extend the window.
C27_WindowReset ==
  (RateDone /\ call.entry # EmptyRec) =>
    /\ call.at > call.entry.resetAt =>
         /\ result.out.passed
         /\ store[call.key] = [count |-> 1, resetAt |-> call.at + WindowMs]
    /\ call.at <= call.entry.resetAt =>
         /\ store[call.key].resetAt = call.entry.resetAt
         /\ store[call.key].count = call.entry.count + 1
         /\ Exceeded(call.entry) => ~result.out.passed

C27_Witness ==
  /\ RateDone
  /\ call.entry # EmptyRec
  /\ call.entry.count > RateMax
  /\ call.at = call.entry.resetAt + 1
  /\ result.out.passed
  /\ store[call.key] = [count |-> 1, resetAt |-> call.at + WindowMs]

\* C29: the cleanup removes expired entries only, and a request of any key at
\* the present or any later time gets the same answer, the same headers and
\* leaves the same entry whether the cleanup has just run or not.
C29_SweepUnobservable ==
  LET swept == SweepStore(store, now)
  IN  /\ \A k \in DOMAIN store :
           IF k \in DOMAIN swept THEN swept[k] = store[k] ELSE store[k].resetAt < now
      /\ \A k \in Keys : \A t \in now..MaxTime :
           /\ RateLimitResponse(swept, k, t) = RateLimitResponse(store, k, t)
           /\ StoreAfterRequest(swept, k, t)[k] = StoreAfterRequest(store, k, t)[k]

\* a request found no entry although an earlier window of its key is on
\* record: the cleanup had removed the entry
C29_Witness ==
  /\ RateDone
  /\ call.entry = EmptyRec
  /\ \E w \in DOMAIN nextCalls : w[1] = call.key /\ w[2] < call.at
  /\ result.out.passed
  /\ result.out.headers.remaining = RateMax - 1

\* the query in flight names Aave and holds no action keyword
AaveWithoutAction ==
  /\ call.op = "parseNaturalLanguageQuery"
  /\ ruleBased # NoResult
  /\ Test(ReAave, LowerCased(call.query))
  /\ \A re \in {ReTvl, ReRates, RePools, ReVolume} : ~Test(re, LowerCased(call.query))

\* C26: for a query that names Aave and holds no action keyword Stage 1
\* resolves the action to tvl, so that the query is resolved without Stage 2.
C26_AaveDefaultsToTVL ==
  AaveWithoutAction =>
    /\ ruleBased.protocol = "aave-v3"
    /\ ruleBased.action = "tvl"
    /\ genCalls = 0
    /\ pc = "done" /\ result.out = ruleBased

\* a successful envelope that carries a chain field
SuccessWithChain ==
  /\ ExecDone
  /\ result.out.success = TRUE
  /\ "chain" \in DOMAIN result.out

\* C28: in a successful envelope that carries a chain field, data is the
\* result of one accessor call for that chain (and names that chain where it
\* names one), never a list or map over several chains.
C28_DataMatchesEnvelopeChain ==
  SuccessWithChain =>
    /\ Len(branches) = 1
    /\ branches[1].chain = result.out.chain
    /\ result.out.data = branches[1].out
    /\ "chain" \in DOMAIN result.out.data => result.out.data.chain = result.out.chain

\* processNaturalLanguageQuery is running
PipelineInFlight ==
  \/ call.op = "parseNaturalLanguageQuery"
  \/ call.op = "executeQuery" /\ ruleBased # NoResult /\ pc = "waiting"

====
